---- MODULE Spec2Model ----
(***************************************************************************)
(* Model of beheader.py, the polyglot generator: main() as a linear        *)
(* pipeline over byte buffers, with the Python semantics of bytearray      *)
(* slice assignment, bytes.find, int(), str() and int.to_bytes.            *)
(*                                                                         *)
(* Byte strings the program inspects or edits (the 288-byte header, the    *)
(* extra bytes, the document, the 8-byte box head, the hypertext) are      *)
(* sequences of byte values.  Byte strings the program only copies (the    *)
(* transcoded image, the media remainder, appendables, the merged archive) *)
(* are chunks known by name and length.  A file is a sequence of chunks.   *)
(*                                                                         *)
(* Python integers are unbounded; quantities that can exceed the range of  *)
(* the model checker's integers (file sizes, cross-reference offsets) are  *)
(* signed decimal numbers [neg, mag] with mag a most-significant-first     *)
(* digit sequence.  Indices into the small buffers are plain integers.     *)
(***************************************************************************)
EXTENDS Integers, Sequences, FiniteSets, TLC

\* ------------------------------------------------------------- bounds
MaxExtra == 2
MaxEntries == 2
MaxIter == 34

\* ------------------------------------------------- unbounded integers
Min(a, b) == IF a < b THEN a ELSE b
Max(a, b) == IF a > b THEN a ELSE b

RECURSIVE Rev(_)
Rev(s) == IF s = <<>> THEN <<>> ELSE Rev(Tail(s)) \o <<Head(s)>>

RECURSIVE NatOfInt(_)
NatOfInt(n) == IF n < 10 THEN <<n>> ELSE NatOfInt(n \div 10) \o <<n % 10>>

RECURSIVE Strip0(_)
Strip0(d) == IF Len(d) > 1 /\ Head(d) = 0 THEN Strip0(Tail(d)) ELSE d

RECURSIVE AddRev(_, _, _)
AddRev(a, b, c) ==
    IF a = <<>> /\ b = <<>>
    THEN IF c = 0 THEN <<>> ELSE <<c>>
    ELSE LET x == IF a = <<>> THEN 0 ELSE Head(a)
             y == IF b = <<>> THEN 0 ELSE Head(b)
             s == x + y + c
         IN  <<s % 10>> \o AddRev(IF a = <<>> THEN a ELSE Tail(a),
                                  IF b = <<>> THEN b ELSE Tail(b), s \div 10)

NatAdd(a, b) == Rev(AddRev(Rev(a), Rev(b), 0))

\* a - b for a >= b, least significant digit first, with borrow
RECURSIVE SubRev(_, _, _)
SubRev(a, b, c) ==
    IF a = <<>> THEN <<>>
    ELSE LET y == IF b = <<>> THEN 0 ELSE Head(b)
             s == Head(a) - y - c
         IN  <<(s + 10) % 10>> \o SubRev(Tail(a), IF b = <<>> THEN b ELSE Tail(b),
                                         IF s < 0 THEN 1 ELSE 0)

NatSub(a, b) == Strip0(Rev(SubRev(Rev(a), Rev(b), 0)))

RECURSIVE LexLess(_, _)
LexLess(a, b) ==
    /\ a # <<>>
    /\ \/ Head(a) < Head(b)
       \/ Head(a) = Head(b) /\ LexLess(Tail(a), Tail(b))

NatLess(a, b) == Len(a) < Len(b) \/ (Len(a) = Len(b) /\ LexLess(a, b))

RECURSIVE MulRev(_, _, _)
MulRev(a, k, c) ==
    IF a = <<>>
    THEN IF c = 0 THEN <<>> ELSE Rev(NatOfInt(c))
    ELSE LET s == Head(a) * k + c
         IN  <<s % 10>> \o MulRev(Tail(a), k, s \div 10)

NatMulSmall(a, k) == Strip0(Rev(MulRev(Rev(a), k, 0)))

\* long division of a digit sequence by a small k: quotient digits and remainder
RECURSIVE DivSmall(_, _, _)
DivSmall(a, k, r) ==
    IF a = <<>> THEN [q |-> <<>>, r |-> r]
    ELSE LET cur == r * 10 + Head(a)
             rest == DivSmall(Tail(a), k, cur % k)
         IN  [q |-> <<cur \div k>> \o rest.q, r |-> rest.r]

Big(neg, mag) == [neg |-> neg /\ mag # <<0>>, mag |-> mag]
BigOfInt(i) == IF i < 0 THEN Big(TRUE, NatOfInt(0 - i)) ELSE Big(FALSE, NatOfInt(i))

BigAdd(x, y) ==
    IF x.neg = y.neg THEN Big(x.neg, NatAdd(x.mag, y.mag))
    ELSE IF NatLess(x.mag, y.mag) THEN Big(y.neg, NatSub(y.mag, x.mag))
    ELSE Big(x.neg, NatSub(x.mag, y.mag))

BigNeg(x) == Big(~x.neg, x.mag)
BigSub(x, y) == BigAdd(x, BigNeg(y))
BigLess(x, y) == BigSub(x, y).neg

\* ------------------------------------------------------ Python str()
\* str(n): the decimal text of an integer, as ASCII codes
str(x) == (IF x.neg THEN <<45>> ELSE <<>>) \o [i \in 1..Len(x.mag) |-> 48 + x.mag[i]]

\* ------------------------------------------ bytes and bytearray (Python)
\* data[a:b] for 0 <= a, 0 <= b
Slice(data, a, b) == SubSeq(data, Min(a, Len(data)) + 1, Min(b, Len(data)))

\* buf[a:b] = x on a bytearray: the (clamped) slice is replaced by x, whatever
\* the two lengths are, so the buffer grows or shrinks when they differ
SliceAssign(buf, a, b, x) ==
    LET lo == Min(a, Len(buf))
        hi == Max(lo, Min(b, Len(buf)))
    IN  SubSeq(buf, 1, lo) \o x \o SubSeq(buf, hi + 1, Len(buf))

\* buf[i] = v for 0 <= i < len(buf)
SetByte(buf, i, v) == [buf EXCEPT ![i + 1] = v]

Zeros(n) == [i \in 1..n |-> 0]

\* data.find(sub, start): the least index >= start where sub occurs, or -1
find_sub_array_index(data, sub, start) ==
    LET hits == {i \in start..(Len(data) - Len(sub)) :
                     SubSeq(data, i + 1, i + Len(sub)) = sub}
    IN  IF hits = {} THEN 0 - 1
        ELSE CHOOSE i \in hits : \A j \in hits : i <= j

\* the base-256 digits of a magnitude, most significant first (<<>> for 0)
RECURSIVE Base256(_)
Base256(mag) ==
    IF mag = <<0>> THEN <<>>
    ELSE LET d == DivSmall(mag, 256, 0)
         IN  Base256(Strip0(d.q)) \o <<d.r>>

\* int.to_bytes(4, ...) raises OverflowError unless 0 <= num < 2^32
Fits4(x) == ~x.neg /\ Len(Base256(x.mag)) <= 4

number_to_4b_be(x) == LET b == Base256(x.mag) IN Zeros(4 - Len(b)) \o b
number_to_4b_le(x) == Rev(number_to_4b_be(x))

\* pad_left(s, target_len): str(s) preceded by zeros up to target_len characters
pad_left(x, target_len) ==
    LET s == str(x) IN [i \in 1..Max(0, target_len - Len(s)) |-> 48] \o s

\* str.encode("utf-8") of a sequence of code points below 2048
RECURSIVE Utf8(_)
Utf8(cps) ==
    IF cps = <<>> THEN <<>>
    ELSE LET c == Head(cps)
         IN  (IF c < 128 THEN <<c>> ELSE <<192 + (c \div 64), 128 + (c % 64)>>)
             \o Utf8(Tail(cps))

\* ----------------------------------------------------- Python int(text)
Whitespace == {9, 10, 11, 12, 13, 28, 29, 30, 31, 32}
IsDigit(c) == c >= 48 /\ c <= 57

RECURSIVE LStrip(_)
LStrip(s) == IF s # <<>> /\ Head(s) \in Whitespace THEN LStrip(Tail(s)) ELSE s
strip(s) == Rev(LStrip(Rev(LStrip(s))))

\* digits, with single underscores allowed between two digits
ValidBody(b) ==
    /\ b # <<>>
    /\ \A i \in 1..Len(b) :
          \/ IsDigit(b[i])
          \/ /\ b[i] = 95
             /\ i > 1 /\ i < Len(b)
             /\ IsDigit(b[i - 1]) /\ IsDigit(b[i + 1])

RECURSIVE DigitsOf(_)
DigitsOf(b) ==
    IF b = <<>> THEN <<>>
    ELSE (IF IsDigit(Head(b)) THEN <<Head(b) - 48>> ELSE <<>>) \o DigitsOf(Tail(b))

\* int(text): [ok |-> FALSE] stands for ValueError
int(text) ==
    LET t == strip(text)
        signed == t # <<>> /\ Head(t) \in {43, 45}
        body == IF signed THEN Tail(t) ELSE t
    IN  IF ValidBody(body)
        THEN [ok |-> TRUE, val |-> Big(signed /\ Head(t) = 45, Strip0(DigitsOf(body)))]
        ELSE [ok |-> FALSE, val |-> BigOfInt(0)]

\* ------------------------------------------------------ files as chunks
Lit(data) == [tag |-> "lit", data |-> data, len |-> BigOfInt(Len(data))]
Blob(tag, len) == [tag |-> tag, data |-> <<>>, len |-> len]

RECURSIVE FileLen(_)
FileLen(f) == IF f = <<>> THEN BigOfInt(0) ELSE BigAdd(Head(f).len, FileLen(Tail(f)))

\* ------------------------------------------------------------ literals
Ftyp == <<102, 116, 121, 112>>
FtypTemplate ==
    <<0, 0, 0, 32, 102, 116, 121, 112, 105, 115, 111, 109, 0, 0, 2, 0,
      105, 115, 111, 109, 105, 115, 111, 50, 97, 118, 99, 49, 109, 112, 52, 49>>
Brands == <<105, 115, 111, 109, 105, 115, 111, 50, 97, 118, 99, 49, 109, 112, 52, 49>>
CommentOpen == <<60, 33, 45, 45>>
SkipTag == <<115, 107, 105, 112>>
HtmlPrefix ==
    <<45, 45, 62, 60, 115, 116, 121, 108, 101, 62, 98, 111, 100, 121, 123, 102,
      111, 110, 116, 45, 115, 105, 122, 101, 58, 48, 125, 60, 47, 115, 116, 121,
      108, 101, 62, 60, 100, 105, 118, 32, 115, 116, 121, 108, 101, 61, 102, 111,
      110, 116, 45, 115, 105, 122, 101, 58, 105, 110, 105, 116, 105, 97, 108, 62>>
HtmlSuffix == <<60, 47, 100, 105, 118, 62, 60, 33, 45, 45>>
ObjPrefix ==
    <<10, 49, 32, 48, 32, 111, 98, 106, 10, 60, 60, 47, 76, 101, 110, 103, 116, 104, 32>>
ObjSuffix == <<62, 62, 10, 115, 116, 114, 101, 97, 109, 10>>
object_terminator ==
    <<10, 101, 110, 100, 115, 116, 114, 101, 97, 109, 10, 101, 110, 100, 111, 98, 106, 10>>
XrefKey == <<10, 120, 114, 101, 102>>
FirstEntryKey == <<10, 48, 48, 48, 48, 48, 48, 48, 48, 48, 48>>
StartxrefKey == <<10, 115, 116, 97, 114, 116, 120, 114, 101, 102>>
EofMarker == <<10, 37, 37, 69, 79, 70, 10>>

\* -------------------------------------------------------------- inputs
\* -e: the extra bytes; lengths around the places where the spliced content
\* reaches the end of the 288-byte buffer
ExtraLens == (0..MaxExtra) \cup {130, 262, 263}
ExtraInputs == {[i \in 1..n |-> 65] : n \in ExtraLens}

\* -h: absent, or the text of the hypertext file as code points
HtmlInputs ==
    {[present |-> FALSE, text |-> <<>>],
     [present |-> TRUE, text |-> <<>>],
     [present |-> TRUE, text |-> <<233>>]}

\* the size of the image as the transcoder writes it; the last is 2^32 - 9
ImageInputs ==
    {BigOfInt(1), BigOfInt(3), Big(FALSE, <<4, 2, 9, 4, 9, 6, 7, 2, 8, 7>>)}

\* the transcoded container: its first four bytes and the length of the rest
VideoInputs ==
    {[head |-> <<0, 0, 0, 32>>, body |-> 36],
     [head |-> <<0, 0, 0, 32>>, body |-> 799],
     [head |-> <<0, 0, 0, 64>>, body |-> 36]}

\* -p: documents.  A regular one is a header, a cross-reference section of
\* count entries and a trailer pointer.
PdfMagic == <<37, 80, 68, 70, 45, 49, 46, 52, 10>>
XrefHead == <<120, 114, 101, 102, 10, 48, 32>>
EntryTail == <<32, 48, 48, 48, 48, 48, 32, 110, 32, 10>>
TrailerHead == <<116, 114, 97, 105, 108, 101, 114, 10, 115, 116, 97, 114, 116, 120, 114, 101, 102, 10>>
FreeField == <<48, 48, 48, 48, 48, 48, 48, 48, 48, 48>>
EntryFields ==
    {<<48, 48, 48, 48, 48, 48, 48, 48, 48, 57>>,
     <<57, 57, 57, 57, 57, 57, 57, 57, 57, 57>>,
     <<48, 48, 48, 48, 48, 48, 48, 48, 120, 57>>}

RECURSIVE EntryLines(_)
EntryLines(fields) ==
    IF fields = <<>> THEN <<>>
    ELSE Head(fields) \o EntryTail \o EntryLines(Tail(fields))

MakeDoc(count, fields, pointer) ==
    PdfMagic \o XrefHead \o count \o <<10>> \o EntryLines(fields)
        \o TrailerHead \o pointer \o EofMarker

FieldSeqs ==
    UNION {{<<FreeField>> \o t : t \in [1..(n - 1) -> EntryFields]} : n \in 1..MaxEntries}

RegularDocs == {MakeDoc(str(BigOfInt(Len(f))), f, <<57>>) : f \in FieldSeqs}

IrregularDocs ==
    {<<37, 80, 68, 70, 45, 49, 46, 52, 10, 104, 101, 108, 108, 111, 10>>,
     <<37, 80, 68, 70>>,
     MakeDoc(<<120>>, <<FreeField>>, <<57>>),
     MakeDoc(<<49>>, <<FreeField>>, <<122, 122>>),
     MakeDoc(<<50>>, <<FreeField>>, <<57>>)}

PdfInputs ==
    {[present |-> FALSE, bytes |-> <<>>]}
        \cup {[present |-> TRUE, bytes |-> d] : d \in RegularDocs \cup IrregularDocs}

\* appendable paths: whether the path exists and how long the file is
AppendableInputs ==
    {<<>>, <<[exists |-> FALSE, len |-> 0], [exists |-> TRUE, len |-> 5]>>}

\* -z: the number of archives given
ZipInputs == {0, 1}
MergedLens == {22}

\* --------------------------------------------------------------- state
VARIABLES
    pc,             \* the statement of main() to execute next
    err,            \* the exception being propagated, "none" if none
    extra_bytes, html, pdf, image, video, appendables, zip_paths,  \* arguments
    tmpdir,         \* the scratch directory exists
    ftyp_buffer,    \* the header region
    html_string,    \* code points
    skip_atom,      \* chunks
    rest_bytes,     \* chunks
    png_offset, atom_free_addr,
    mp4_size, offset, obj_string,
    iters,          \* iterations of the width search so far
    out_exists, outfile,   \* the file at the output path: chunks
    pdf_buffer,     \* the document tail as appended
    out_size,       \* out_size as the patcher computes it
    patched         \* "n/a", "ok" (try block completed) or "failed" (except taken)

vars == <<pc, err, extra_bytes, html, pdf, image, video, appendables, zip_paths,
          tmpdir, ftyp_buffer, html_string, skip_atom, rest_bytes, png_offset,
          atom_free_addr, mp4_size, offset, obj_string, iters, out_exists,
          outfile, pdf_buffer, out_size, patched>>

args == <<extra_bytes, html, pdf, image, video, appendables, zip_paths>>
header_vars == <<ftyp_buffer, png_offset, atom_free_addr>>
search_vars == <<mp4_size, offset, obj_string, iters>>
output_vars == <<out_exists, outfile, pdf_buffer, out_size, patched>>

\* after argument parsing and the read of the extra bytes, before mkdtemp
Init ==
    /\ pc = "mkdtemp"
    /\ err = "none"
    /\ extra_bytes \in ExtraInputs
    /\ html \in HtmlInputs
    /\ pdf \in PdfInputs
    /\ image \in ImageInputs
    /\ video \in VideoInputs
    /\ appendables \in AppendableInputs
    /\ zip_paths \in ZipInputs
    /\ tmpdir = FALSE
    /\ ftyp_buffer = <<>>
    /\ html_string = <<>>
    /\ skip_atom = <<>>
    /\ rest_bytes = <<>>
    /\ png_offset = 0
    /\ atom_free_addr = 0
    /\ mp4_size = BigOfInt(0)
    /\ offset = 0
    /\ obj_string = <<>>
    /\ iters = 0
    /\ out_exists = FALSE
    /\ outfile = <<>>
    /\ pdf_buffer = <<>>
    /\ out_size = BigOfInt(0)
    /\ patched = "n/a"

\* an exception inside the try block: control goes to the finally clause
Raise(e) == pc' = "finally" /\ err' = e

MkDtemp ==
    /\ pc = "mkdtemp"
    /\ tmpdir' = TRUE
    /\ pc' = "convert"
    /\ UNCHANGED <<err, args, header_vars, html_string, skip_atom, rest_bytes,
                   search_vars, output_vars>>

\* convert_image: the external image transcoder succeeds or raises
ConvertImage ==
    /\ pc = "convert"
    /\ \/ pc' = "header" /\ err' = err
       \/ Raise("ImageError")
    /\ UNCHANGED <<args, tmpdir, header_vars, html_string, skip_atom, rest_bytes,
                   search_vars, output_vars>>

\* the buffer of lines 85-96, for an image size that fits four bytes
InitialHeader(size) ==
    LET b0 == Zeros(256 + 32)
        b1 == SetByte(b0, 2, 1)
        b2 == SetByte(b1, 3, 32)
        b3 == SliceAssign(b2, 4, 8, Ftyp)
        b4 == SliceAssign(b3, 256, 288, FtypTemplate)
        b5 == SetByte(b4, 12, 32)
    IN  SliceAssign(b5, 14, 18, number_to_4b_le(size))

InitHeader ==
    /\ pc = "header"
    /\ IF Fits4(image)
       THEN /\ ftyp_buffer' = InitialHeader(image)
            /\ pc' = "transcode" /\ err' = err
       ELSE /\ Raise("OverflowError")
            /\ UNCHANGED ftyp_buffer
    /\ UNCHANGED <<args, tmpdir, png_offset, atom_free_addr, html_string, skip_atom,
                   rest_bytes, search_vars, output_vars>>

\* ffprobe and ffmpeg: the external media transcoder succeeds or raises
Transcode ==
    /\ pc = "transcode"
    /\ \/ pc' = "html" /\ err' = err
       \/ Raise("CalledProcessError")
    /\ UNCHANGED <<args, tmpdir, header_vars, html_string, skip_atom, rest_bytes,
                   search_vars, output_vars>>

ReadHtml ==
    /\ pc = "html"
    /\ html_string' = IF html.present THEN HtmlPrefix \o html.text \o HtmlSuffix
                      ELSE <<>>
    /\ pc' = "skip"
    /\ UNCHANGED <<err, args, tmpdir, header_vars, skip_atom, rest_bytes,
                   search_vars, output_vars>>

\* build_skip_atom with the size field cut to its low 32 bits instead of raising
build_skip_atom_wrapping(png_len, hs) ==
    LET html_bytes == IF hs # <<>> THEN Utf8(hs) ELSE <<>>
        skip_data == <<Lit(html_bytes), Blob("png", png_len)>>
        n == BigAdd(FileLen(skip_data), BigOfInt(8))
        b == Base256(n.mag)
        low == Zeros(4 - Len(b)) \o SubSeq(b, Max(1, Len(b) - 3), Len(b))
    IN  [ok |-> TRUE, atom |-> <<Lit(low \o SkipTag)>> \o skip_data]

\* build_skip_atom: [ok |-> FALSE] stands for the OverflowError of to_bytes
build_skip_atom(png_len, hs) ==
    LET html_bytes == IF hs # <<>> THEN Utf8(hs) ELSE <<>>
        skip_data == <<Lit(html_bytes), Blob("png", png_len)>>
        n == BigAdd(FileLen(skip_data), BigOfInt(8))
    IN  IF Fits4(n)
        THEN [ok |-> TRUE, atom |-> <<Lit(number_to_4b_be(n) \o SkipTag)>> \o skip_data]
        ELSE [ok |-> FALSE, atom |-> <<>>]

BuildSkipAtom ==
    /\ pc = "skip"
    /\ LET r == build_skip_atom(image, html_string)
       IN  IF r.ok
           THEN skip_atom' = r.atom /\ pc' = "reassemble" /\ err' = err
           ELSE Raise("OverflowError") /\ UNCHANGED skip_atom
    /\ UNCHANGED <<args, tmpdir, header_vars, html_string, rest_bytes,
                   search_vars, output_vars>>

\* int.from_bytes(data, "big")
RECURSIVE from_bytes_big(_)
from_bytes_big(data) ==
    IF data = <<>> THEN <<0>>
    ELSE NatAdd(NatMulSmall(from_bytes_big(SubSeq(data, 1, Len(data) - 1)), 256),
                NatOfInt(data[Len(data)]))

\* orig_bytes[orig_ftyp_size:], orig_bytes being v.head followed by v.body bytes
RestOf(v) ==
    LET orig_ftyp_size == Big(FALSE, from_bytes_big(Slice(v.head, 0, 4)))
        total == BigOfInt(Len(v.head) + v.body)
        left == BigSub(total, orig_ftyp_size)
        head_len == BigOfInt(Len(v.head))
        small == CHOOSE k \in 0..Len(v.head) : BigOfInt(k) = orig_ftyp_size
    IN  IF ~BigLess(orig_ftyp_size, total) THEN <<>>
        ELSE IF BigLess(orig_ftyp_size, head_len)
        THEN <<Lit(Slice(v.head, small, Len(v.head))), Blob("media", BigOfInt(v.body))>>
        ELSE <<Blob("media", left)>>

Reassemble ==
    /\ pc = "reassemble"
    /\ rest_bytes' = RestOf(video)
    /\ pc' = "offsets"
    /\ UNCHANGED <<err, args, tmpdir, header_vars, html_string, skip_atom,
                   search_vars, output_vars>>

\* lines 132-141: the image offset, the marker bytes, the extra bytes and the
\* comment opening
WriteOffsets ==
    /\ pc = "offsets"
    /\ LET po == Len(ftyp_buffer) + Len(skip_atom[1].data) + Len(Utf8(html_string))
           b1 == SliceAssign(ftyp_buffer, 18, 22, number_to_4b_le(BigOfInt(po)))
           b2 == SliceAssign(b1, 4, 8, <<1, 0, 0, 0>>)
           b3 == SliceAssign(b2, 240, 256, Brands)
           n  == Len(extra_bytes)
           b4 == SliceAssign(b3, 22, 22 + n, extra_bytes)
           b5 == SliceAssign(b4, 22 + n, 22 + n + 4, CommentOpen)
       IN  /\ png_offset' = po
           /\ ftyp_buffer' = b5
           /\ atom_free_addr' = 22 + n + 4
    /\ pc' = IF pdf.present THEN "pdfhead" ELSE "write"
    /\ UNCHANGED <<err, args, tmpdir, html_string, skip_atom, rest_bytes,
                   search_vars, output_vars>>

\* lines 144-149: read the document, splice a newline and its first 9 bytes
PdfHeader ==
    /\ pc = "pdfhead"
    /\ \/ /\ Raise("OSError")
          /\ UNCHANGED <<header_vars, search_vars>>
       \/ /\ atom_free_addr >= Len(ftyp_buffer)
          /\ Raise("IndexError")
          /\ mp4_size' = BigAdd(BigOfInt(Len(ftyp_buffer)),
                                BigAdd(FileLen(skip_atom), FileLen(rest_bytes)))
          /\ UNCHANGED <<header_vars, offset, obj_string, iters>>
       \/ /\ atom_free_addr < Len(ftyp_buffer)
          /\ LET size == BigAdd(BigOfInt(Len(ftyp_buffer)),
                                BigAdd(FileLen(skip_atom), FileLen(rest_bytes)))
                 b1 == SetByte(ftyp_buffer, atom_free_addr, 10)
             IN  /\ mp4_size' = size
                 /\ ftyp_buffer' = SliceAssign(b1, atom_free_addr + 1, atom_free_addr + 10,
                                               Slice(pdf.bytes, 0, 9))
                 /\ offset' = 30 + Len(str(size))
          /\ atom_free_addr' = atom_free_addr + 10
          /\ pc' = "search" /\ err' = err
          /\ UNCHANGED <<png_offset, obj_string, iters>>
    /\ UNCHANGED <<args, tmpdir, html_string, skip_atom, rest_bytes, output_vars>>

\* the rendered document-object header for a candidate width
ObjString(size, addr, n, off) ==
    ObjPrefix \o str(BigSub(size, BigOfInt(addr + n + off))) \o ObjSuffix

\* one iteration of the while True loop of lines 150-156
SearchStep ==
    /\ pc = "search"
    /\ iters < MaxIter
    /\ offset' = offset - 1
    /\ obj_string' = ObjString(mp4_size, atom_free_addr, Len(extra_bytes), offset - 1)
    /\ iters' = iters + 1
    /\ pc' = IF offset - 1 = Len(obj_string') THEN "splice" ELSE "search"
    /\ UNCHANGED <<err, args, tmpdir, header_vars, html_string, skip_atom, rest_bytes,
                   mp4_size, output_vars>>

\* lines 157-160
SpliceObj ==
    /\ pc = "splice"
    /\ LET obj_bytes == Utf8(obj_string)
           start == atom_free_addr + Len(extra_bytes)
       IN  /\ ftyp_buffer' = SliceAssign(ftyp_buffer, start, start + Len(obj_bytes), obj_bytes)
           /\ atom_free_addr' = atom_free_addr + Len(obj_bytes)
    /\ pc' = "write"
    /\ UNCHANGED <<err, args, tmpdir, png_offset, html_string, skip_atom, rest_bytes,
                   search_vars, output_vars>>

\* lines 162-166: write the file, then zero its byte 3
WriteOutput ==
    /\ pc = "write"
    /\ out_exists' = TRUE
    /\ outfile' = <<Lit(SetByte(ftyp_buffer, 3, 0))>> \o skip_atom \o rest_bytes
    /\ pc' = IF pdf.present THEN "patch" ELSE "append"
    /\ UNCHANGED <<err, args, tmpdir, header_vars, html_string, skip_atom, rest_bytes,
                   search_vars, pdf_buffer, out_size, patched>>

\* the last token of xref_header.strip().replace("\n", " ").split(" ")
RECURSIVE LastToken(_)
LastToken(t) ==
    IF t = <<>> \/ t[Len(t)] \in {10, 32} THEN <<>>
    ELSE LastToken(SubSeq(t, 1, Len(t) - 1)) \o <<t[Len(t)]>>

\* the for loop of lines 183-187 with n iterations left; ok = FALSE when int()
\* raises, with the buffer as the earlier iterations left it
RECURSIVE PatchEntries(_, _, _, _)
PatchEntries(buf, curr, n, size) ==
    IF n.neg \/ n.mag = <<0>> THEN [buf |-> buf, ok |-> TRUE]
    ELSE LET field == int(Slice(buf, curr, curr + 10))
             new_offset == BigAdd(field.val, size)
             buf2 == SliceAssign(buf, curr, curr + 10, Slice(pad_left(new_offset, 10), 0, 10))
             next == find_sub_array_index(buf2, <<10>>, curr + 1) + 1
         IN  IF ~field.ok THEN [buf |-> buf, ok |-> FALSE]
             ELSE PatchEntries(buf2, next, BigSub(n, BigOfInt(1)), size)

\* lines 188-193: the trailer pointer, the end-of-file marker, the zero fill
PatchTrailer(buf, startxref_start, startxref_end, size) ==
    LET startxref == int(Slice(buf, startxref_start + 10, startxref_end))
        new_startxref == str(BigAdd(startxref.val, size))
        n == Len(new_startxref)
        b1 == SliceAssign(buf, startxref_start + 10, startxref_start + 10 + n, new_startxref)
        b2 == SliceAssign(b1, startxref_start + 10 + n, startxref_start + 15 + n, EofMarker)
        b3 == [i \in 1..Len(b2) |-> IF i - 1 >= startxref_start + n + 17 THEN 0 ELSE b2[i]]
    IN  IF startxref.ok THEN [buf |-> b3, ok |-> TRUE] ELSE [buf |-> buf, ok |-> FALSE]

\* lines 169-196: the buffer that gets appended and whether the try block
\* ran to its end; st_size is the size of the output file at that time
PatchDocument(pdf_bytes, st_size) ==
    LET buf0 == object_terminator \o pdf_bytes
        xref_start == find_sub_array_index(buf0, XrefKey, 0) + 1
        offset_start == find_sub_array_index(buf0, FirstEntryKey, xref_start) + 1
        startxref_start == find_sub_array_index(buf0, StartxrefKey, xref_start) + 1
        startxref_end == find_sub_array_index(buf0, <<10>>, startxref_start + 11)
        size == BigAdd(st_size, BigOfInt(Len(object_terminator)))
        xref_header == Slice(buf0, xref_start, offset_start)
        count == int(LastToken(strip(xref_header)))
        entries == PatchEntries(buf0, offset_start, count.val, size)
        trailer == PatchTrailer(entries.buf, startxref_start, startxref_end, size)
    IN  IF Min(Min(xref_start, offset_start), Min(startxref_start, startxref_end)) <= 0
        THEN [buf |-> buf0, ok |-> FALSE, size |-> BigOfInt(0)]
        ELSE IF ~count.ok THEN [buf |-> buf0, ok |-> FALSE, size |-> size]
        ELSE IF ~entries.ok THEN [buf |-> entries.buf, ok |-> FALSE, size |-> size]
        ELSE [buf |-> trailer.buf, ok |-> trailer.ok, size |-> size]

\* lines 168-198: patch the document tail and append it
PatchPdf ==
    /\ pc = "patch"
    /\ LET r == PatchDocument(pdf.bytes, FileLen(outfile))
       IN  /\ pdf_buffer' = r.buf
           /\ out_size' = r.size
           /\ patched' = IF r.ok THEN "ok" ELSE "failed"
           /\ outfile' = outfile \o <<Lit(r.buf)>>
    /\ pc' = "append"
    /\ UNCHANGED <<err, args, tmpdir, header_vars, html_string, skip_atom, rest_bytes,
                   search_vars, out_exists>>

\* the chunks written for the paths that exist
RECURSIVE Appended(_)
Appended(paths) ==
    IF paths = <<>> THEN <<>>
    ELSE (IF Head(paths).exists THEN <<Blob("appendable", BigOfInt(Head(paths).len))>>
          ELSE <<>>) \o Appended(Tail(paths))

\* lines 200-203: every path is written, or the read of an existing one raises
AppendAppendables ==
    /\ pc = "append"
    /\ \/ /\ outfile' = outfile \o Appended(appendables)
          /\ pc' = IF zip_paths > 0 THEN "zip" ELSE "finally"
          /\ err' = err
       \/ \E k \in 1..Len(appendables) :
             /\ appendables[k].exists
             /\ outfile' = outfile \o Appended(SubSeq(appendables, 1, k - 1))
             /\ Raise("OSError")
    /\ UNCHANGED <<args, tmpdir, header_vars, html_string, skip_atom, rest_bytes,
                   search_vars, out_exists, pdf_buffer, out_size, patched>>

\* lines 205-213: the external unpack and repack succeed or raise
MergeZips ==
    /\ pc = "zip"
    /\ \/ \E n \in MergedLens :
             /\ outfile' = outfile \o <<Blob("merged", BigOfInt(n))>>
             /\ pc' = "finally" /\ err' = err
       \/ Raise("ReadError") /\ UNCHANGED outfile
    /\ UNCHANGED <<args, tmpdir, header_vars, html_string, skip_atom, rest_bytes,
                   search_vars, out_exists, pdf_buffer, out_size, patched>>

\* lines 215-216: remove the scratch directory; an exception propagates
Finally ==
    /\ pc = "finally"
    /\ tmpdir' = FALSE
    /\ pc' = IF err = "none" THEN "done" ELSE "failed"
    /\ UNCHANGED <<err, args, header_vars, html_string, skip_atom, rest_bytes,
                   search_vars, output_vars>>

Next ==
    \/ MkDtemp
    \/ ConvertImage
    \/ InitHeader
    \/ Transcode
    \/ ReadHtml
    \/ BuildSkipAtom
    \/ Reassemble
    \/ WriteOffsets
    \/ PdfHeader
    \/ SearchStep
    \/ SpliceObj
    \/ WriteOutput
    \/ PatchPdf
    \/ AppendAppendables
    \/ MergeZips
    \/ Finally

Spec == Init /\ [][Next]_vars

\* ---------------------------------------------- vocabulary of the claims
TwoPow32 == Big(FALSE, <<4, 2, 9, 4, 9, 6, 7, 2, 9, 6>>)

\* the index in file f of the first byte of its first chunk named tag
RECURSIVE OffsetOf(_, _)
OffsetOf(f, tag) ==
    IF f = <<>> \/ Head(f).tag = tag THEN BigOfInt(0)
    ELSE BigAdd(Head(f).len, OffsetOf(Tail(f), tag))

HasChunk(f, tag) == \E i \in 1..Len(f) : f[i].tag = tag

\* the header region as it stands in the output file
OutHeader == outfile[1].data

\* header region + wrapper box + media remainder, as written
PrefixLen == FileLen(<<outfile[1]>> \o skip_atom \o rest_bytes)

\* the length of the wrapper box's payload for the inputs of this run
PayloadLen == BigAdd(BigOfInt(Len(Utf8(html_string))), image)
TooLarge == ~BigLess(BigAdd(PayloadLen, BigOfInt(8)), TwoPow32)
SkipBuilt == skip_atom # <<>>

\* the original document tail and its anchors
OrigTail == object_terminator \o pdf.bytes
OrigXref == find_sub_array_index(OrigTail, XrefKey, 0) + 1
OrigFirst == find_sub_array_index(OrigTail, FirstEntryKey, OrigXref) + 1
OrigStartxref == find_sub_array_index(OrigTail, StartxrefKey, OrigXref) + 1
OrigStartxrefEnd == find_sub_array_index(OrigTail, <<10>>, OrigStartxref + 11)
OrigCount == int(LastToken(strip(Slice(OrigTail, OrigXref, OrigFirst)))).val

\* the index of the k-th entry line (k from 0) of the original table
RECURSIVE EntryAt(_)
EntryAt(k) ==
    IF k = 0 THEN OrigFirst
    ELSE find_sub_array_index(OrigTail, <<10>>, EntryAt(k - 1) + 1) + 1

EntryIndexes == {k \in 0..9 : BigLess(BigOfInt(k), OrigCount)}

\* out_size of the claims: everything written before the document tail's body
ClaimOutSize == BigAdd(PrefixLen, BigOfInt(Len(object_terminator)))

\* C1: in every run that produces an output, the little-endian value at output
\* bytes 18..21 is the index in the output of the first byte of the image
\* payload, and the payload is image_size bytes long.
C1_ImageOffset ==
    out_exists =>
        /\ HasChunk(outfile, "png")
        /\ Big(FALSE, from_bytes_big(Rev(Slice(OutHeader, 18, 22)))) = OffsetOf(outfile, "png")

\* C2: when the patcher reports no failure, every one of the count entries
\* holds the zero-left-padded decimal of original offset + out_size in its
\* 10-character field, subtracting out_size from it gives the original offset
\* back, and the trailer pointer holds the decimal of original pointer + out_size.
C2_PatchedOffsets ==
    patched = "ok" =>
        /\ \A k \in EntryIndexes :
              LET orig == int(Slice(OrigTail, EntryAt(k), EntryAt(k) + 10)).val
                  now == int(Slice(pdf_buffer, EntryAt(k), EntryAt(k) + 10))
              IN  /\ Slice(pdf_buffer, EntryAt(k), EntryAt(k) + 10)
                        = pad_left(BigAdd(orig, ClaimOutSize), 10)
                  /\ now.ok /\ BigSub(now.val, ClaimOutSize) = orig
        /\ LET orig == int(Slice(OrigTail, OrigStartxref + 10, OrigStartxrefEnd)).val
               text == str(BigAdd(orig, ClaimOutSize))
           IN  Slice(pdf_buffer, OrigStartxref + 10, OrigStartxref + 10 + Len(text)) = text

\* C3: whenever document patching fails, the bytes appended for the document
\* are the terminator followed by the original document bytes, nothing rewritten.
C3_FailureLeavesTailUnpatched ==
    patched = "failed" => pdf_buffer = object_terminator \o pdf.bytes

\* C4: a document-attached run with no appendables and no archives whose patch
\* succeeds ends with a file of prefix_size + terminator_size + document_size bytes.
C4_FinalSize ==
    (pc = "done" /\ pdf.present /\ patched = "ok" /\ appendables = <<>> /\ zip_paths = 0) =>
        FileLen(outfile)
            = BigAdd(PrefixLen, BigOfInt(Len(object_terminator) + Len(pdf.bytes)))

\* C5: the wrapper box is a 4-byte big-endian declared_size, the tag "skip"
\* and the payload UTF-8 hypertext ++ image, with declared_size = len(payload) + 8;
\* when len(payload) + 8 does not fit in 32 bits no box is returned and the
\* run fails.
C5_SkipBox ==
    /\ SkipBuilt =>
          /\ Len(skip_atom) = 3
          /\ Len(skip_atom[1].data) = 8
          /\ Big(FALSE, from_bytes_big(Slice(skip_atom[1].data, 0, 4)))
                = BigAdd(PayloadLen, BigOfInt(8))
          /\ Slice(skip_atom[1].data, 4, 8) = SkipTag
          /\ skip_atom[2] = Lit(Utf8(html_string))
          /\ skip_atom[3] = Blob("png", image)
          /\ BigAdd(FileLen(<<skip_atom[2], skip_atom[3]>>), BigOfInt(8)) = FileLen(skip_atom)
          /\ ~TooLarge
    /\ (TooLarge /\ pc \notin {"mkdtemp", "convert", "header", "transcode", "html", "skip"}) =>
          /\ ~SkipBuilt
          /\ err # "none"
          /\ ~out_exists

\* the wrapper box was built around a hypertext payload
C5_Witness == SkipBuilt /\ html.text # <<>> /\ pc = "reassemble"

\* the build failed on a payload whose length + 8 needs more than 32 bits
C5_OverflowReached == TooLarge /\ err = "OverflowError" /\ pc = "failed"

\* C6: the header region of every produced output is exactly 288 bytes.
C6_HeaderIs288 == out_exists => Len(OutHeader) = 288

\* C7: when the length declared in the container's first 4 bytes exceeds the
\* container's total length, no output is produced.
C7_TruncatedContainerFails ==
    BigLess(BigOfInt(Len(video.head) + video.body),
            Big(FALSE, from_bytes_big(Slice(video.head, 0, 4))))
        => ~out_exists

\* C8: a run that ends with a fatal error leaves no output file at the output
\* path and no scratch directory.
C8_FatalLeavesNothing == pc = "failed" => (~out_exists /\ ~tmpdir)

\* C9: the width search stops on a fixed point within 30 iterations or ends
\* with a fatal error; it never goes on past them.
C9_SearchBounded == iters <= 30

\* C10: in a document-attached run that produces an output, the first index
\* after the document-object header string plus the L it renders is the
\* length of header region + wrapper box + media remainder.
C10_StreamEndsAtTerminator ==
    (out_exists /\ pdf.present) =>
        LET at == find_sub_array_index(OutHeader, obj_string, 0)
            L == int(Slice(obj_string, Len(ObjPrefix), Len(obj_string) - Len(ObjSuffix)))
        IN  /\ at >= 0
            /\ L.ok
            /\ BigAdd(BigOfInt(at + Len(obj_string)), L.val) = PrefixLen

====
